---- MODULE Spec2Model ----
(***************************************************************************)
(* The crawl-run orchestration of the ML jobs crawler.  The repository     *)
(* holds two entry points, src/server.js (runs, full-snapshot broadcast to  *)
(* attached clients) and src/unnamed/part_000 (sessions, an event log that  *)
(* each stream polls).  A node process executes one of them: `program`.     *)
(*                                                                         *)
(* JavaScript strings that the code inspects character by character        *)
(* (title, company, url) are sequences of one-character strings.  Log      *)
(* messages, which the code only builds and stores, are sequences of the    *)
(* fragments of their template literal.                                    *)
(***************************************************************************)
EXTENDS Integers, Sequences, FiniteSets, TLC

VARIABLES
    program,        \* "server.js" or "part_000": the file node was started with
    world,          \* what the external services answer (sources, LLM)
    now,            \* last value read from Date.now()
    http,           \* the last HTTP request handled and its response
    \* ---- src/server.js
    runs,           \* the run objects, in allocation order
    crawlRuns,      \* Map id -> run object (index into runs)
    runTask,        \* per run object: where its startRun() task is suspended
    res,            \* the response objects of GET /api/crawl/events/:runId
    emitted,        \* per run object: the payloads pushUpdate() has built
    \* ---- src/unnamed/part_000
    sessions,       \* the session objects, in allocation order
    crawlSessions,  \* Map id -> session object (index into sessions)
    crawlTask,      \* per session object: where its runCrawl() task is suspended
    streams,        \* the response objects of GET /api/crawl/stream/:id
    \* ---- pure functions applied to drawn inputs
    fnArgs, fnResult

vars == <<program, world, now, http, runs, crawlRuns, runTask, res, emitted,
          sessions, crawlSessions, crawlTask, streams, fnArgs, fnResult>>

serverVars == <<runs, crawlRuns, runTask, res, emitted>>
partVars == <<sessions, crawlSessions, crawlTask, streams>>
fnVars == <<fnArgs, fnResult>>

----------------------------------------------------------------------------
(* Bounds of the exploration *)

MaxRuns == 2        \* start requests served
MaxClients == 2     \* event-stream connections opened
MaxLoad == 3        \* start requests and event-stream connections together
MaxClock == 1       \* Date.now() takes the values 0..MaxClock
MaxRand == 0        \* Math.random() takes the values 0..MaxRand

----------------------------------------------------------------------------
(* Sequences and strings *)

Min(S) == CHOOSE x \in S : \A y \in S : x <= y

Range(s) == {s[i] : i \in 1..Len(s)}

Take(s, n) == SubSeq(s, 1, IF n < Len(s) THEN n ELSE Len(s))

\* Body(v), with v evaluated once.  (TLC evaluates an operator's argument
\* every time the operator's body uses it.)
With(v, Body(_)) == CHOOSE x \in {Body(y) : y \in {v}} : TRUE

\* A JSON number where a string was expected (7).  Every other value of a
\* title or company is a string: a sequence of characters.
NUM7 == <<"Number(7)">>

IsString(v) == v # NUM7

\* `${v}`
String(v) == IF IsString(v) THEN v ELSE <<"7">>

LowerChar(c) ==
    CASE c = "A" -> "a"
      [] c = "B" -> "b"
      [] OTHER -> c

\* String.prototype.toLowerCase
toLowerCase(s) == [i \in 1..Len(s) |-> LowerChar(s[i])]

\* Collation of String.prototype.localeCompare on the characters used here:
\* punctuation, then digits, then letters; case is a tie-break, lower first.
Primary(c) ==
    CASE c = "-" -> 1
      [] c = "|" -> 2
      [] c = "7" -> 3
      [] c \in {"a", "A"} -> 4
      [] c \in {"b", "B"} -> 5
      [] OTHER -> 6

Tertiary(c) == IF c \in {"A", "B"} THEN 1 ELSE 0

CmpSeq(x, y) ==
    LET n == IF Len(x) < Len(y) THEN Len(x) ELSE Len(y)
    IN  With({i \in 1..n : x[i] # y[i]}, LAMBDA D :
            IF D = {}
            THEN (IF Len(x) < Len(y) THEN -1 ELSE IF Len(x) > Len(y) THEN 1 ELSE 0)
            ELSE With(Min(D), LAMBDA d : IF x[d] < y[d] THEN -1 ELSE 1))

localeCompare(a, b) ==
    With(CmpSeq([i \in 1..Len(a) |-> Primary(a[i])], [i \in 1..Len(b) |-> Primary(b[i])]),
         LAMBDA p :
            IF p # 0 THEN p
            ELSE CmpSeq([i \in 1..Len(a) |-> Tertiary(a[i])],
                        [i \in 1..Len(b) |-> Tertiary(b[i])]))

----------------------------------------------------------------------------
(* The external world: what each job source and the LLM endpoint answer.   *)
(* A source record carries `ml`, the outcome of the keyword match on it    *)
(* (containsMLKeyword / isMLJob).                                          *)

Raw(id, title, company, url, ml) ==
    [id |-> id, title |-> title, company |-> company, url |-> url, ml |-> ml]

R0 == Raw("0", <<"a">>, <<"b">>, <<"-">>, FALSE)
R1 == Raw("1", <<"b">>, <<"a">>, <<"a">>, TRUE)
R2 == Raw("2", <<"a">>, <<"a">>, <<"b">>, TRUE)
R4 == Raw("4", <<"B">>, <<"A">>, <<"a">>, TRUE)      \* R1 up to letter case
R5 == Raw("5", <<"a", "b">>, <<>>, <<"|">>, TRUE)    \* no company given
R3 == Raw("3", <<"b">>, <<"a">>, <<"b">>, TRUE)      \* R1 at another url
RN1 == Raw("6", NUM7, <<"a">>, <<"a">>, TRUE)        \* title is not a string
RN2 == Raw("7", NUM7, <<"a">>, <<"b">>, TRUE)

\* part_000 keeps at most RankedMax ranked jobs (lines 114, 150, 155) and
\* SessionJobsMax jobs in a session (line 220).
RankedMax == 30
SessionJobsMax == 50

Reject == [kind |-> "reject", data |-> <<>>]     \* fetch() rejects
Status503 == [kind |-> "status", data |-> <<>>]  \* response with ok = false
BadBody == [kind |-> "body", data |-> <<>>]      \* the body does not parse
Ok(data) == [kind |-> "ok", data |-> data]

\* The chat completion: `insights` is what server.js parses out of it,
\* `rankedIds` what part_000 does.
LlmAnswer(kind, insights, rankedIds) ==
    [kind |-> kind, insights |-> insights, rankedIds |-> rankedIds]

LlmReject == LlmAnswer("reject", <<>>, <<>>)
LlmStatus401 == LlmAnswer("status", <<>>, <<>>)
LlmBadBody == LlmAnswer("body", <<>>, <<>>)
LlmOk ==
    LlmAnswer("ok",
              << [url |-> <<"b">>, fitScore |-> 90], [url |-> <<"|">>, fitScore |-> 0] >>,
              << <<"Arbeitnow", "-", "5">>, <<"Remotive", "-", "1">>, <<"Remotive", "-", "9">> >>)

World(s0, s1, llm) == [src |-> <<s0, s1>>, llm |-> llm]

\* The answers explored.  Every run of one behaviour meets the same world.
Worlds ==
    { World(Ok(<<R0, R1, R2>>), Ok(<<R4, R5>>), LlmOk),
      World(Reject, Ok(<<R4, R5>>), LlmStatus401),
      World(Ok(<<R0, R1, R2>>), BadBody, LlmBadBody),
      World(Status503, Status503, LlmReject),
      World(Ok(<<R0, RN1, RN2>>), BadBody, LlmOk),
      World(Ok(<<R0, RN1>>), Ok(<<R4, R5>>), LlmReject),
      World(Ok(<<R0, R1, R2>>), Ok(<<>>), LlmReject),
      World(Ok(<<R0, R1, R3>>), Status503, LlmReject) }

FetchFailed == <<"fetch failed">>
BodyFailed == <<"Unexpected token < in JSON at position 0">>

Modes == {"standard", "advanced", "turbo"}
Tokens == {"", "sk-token"}

Ids == (0..MaxClock) \X (0..MaxRand)

----------------------------------------------------------------------------
(* src/server.js: the run object and its broadcast                         *)

LogCap == 150
TopJobs == 15

sources == <<"RemoteOK", "WeWorkRemotely">>

graphStages ==
    << "Plan search strategy", "Collect candidate ML jobs",
       "Enrich with role-level reasoning", "Score and summarize opportunities" >>

newRun(id, mode) ==
    [id |-> id, mode |-> mode, status |-> "running", progress |-> 0,
     stage |-> <<"Queued">>, logs |-> <<>>, jobs |-> <<>>, clients |-> {}]

\* The heap the handlers of server.js work on: the run objects, the response
\* objects of the attached clients, and what pushUpdate has sent so far.
Heap == [runs |-> runs, res |-> res, emitted |-> emitted]

payload(run) ==
    [id |-> run.id, mode |-> run.mode, status |-> run.status,
     progress |-> run.progress, stage |-> run.stage, logs |-> run.logs,
     jobs |-> run.jobs]

pushUpdate(heap, r) ==
    With(heap, LAMBDA h :
        With(payload(h.runs[r]), LAMBDA msg :
            [h EXCEPT
                !.res = [c \in DOMAIN h.res |->
                            IF c \in h.runs[r].clients
                            THEN [h.res[c] EXCEPT !.wire = Append(@, msg)]
                            ELSE h.res[c]],
                !.emitted[r] = Append(@, msg)]))

addLog(heap, r, message) ==
    With(heap, LAMBDA h :
        LET pushed == Append(h.runs[r].logs, message)
            kept == IF Len(pushed) > LogCap THEN Tail(pushed) ELSE pushed
        IN  pushUpdate([h EXCEPT !.runs[r].logs = kept], r))

dedupeKey(job) ==
    toLowerCase(String(job.title) \o <<"|">> \o String(job.company) \o <<"|">> \o String(job.url))

RECURSIVE dedupeFrom(_, _, _)
\* dedupeJobs without line 81: no key is ever remembered
dedupeFromForgets(jobs, k, seen) ==
    IF k > Len(jobs) THEN <<>> ELSE <<jobs[k]>> \o dedupeFrom(jobs, k + 1, seen)

dedupeFrom(jobs, k, seen) ==
    IF k > Len(jobs) THEN <<>>
    ELSE With(dedupeKey(jobs[k]), LAMBDA key :
            IF key \in seen THEN dedupeFrom(jobs, k + 1, seen)
            ELSE <<jobs[k]>> \o With(seen \cup {key}, LAMBDA added :
                                        dedupeFrom(jobs, k + 1, added)))

dedupeJobs(jobs) == With(jobs, LAMBDA list : dedupeFrom(list, 1, {}))

\* Array.prototype.sort is stable: an element goes after every element that
\* compares lower, and after the earlier elements that compare equal.
\* cmp[i][j] is the comparator's result on (jobs[i], jobs[j]).
StableSort(jobs, cmp) ==
    With([i \in 1..Len(jobs) |->
            1 + Cardinality({j \in 1..Len(jobs) :
                    j # i /\ (cmp[j][i] < 0 \/ (cmp[j][i] = 0 /\ j < i))})],
         LAMBDA pos : [k \in 1..Len(jobs) |-> jobs[CHOOSE i \in 1..Len(jobs) : pos[i] = k]])

\* .sort((a, b) => a.title.localeCompare(b.title))
sortByTitle(list) ==
    With(list, LAMBDA jobs :
        With([i \in 1..Len(jobs) |-> [j \in 1..Len(jobs) |->
                localeCompare(String(jobs[i].title), String(jobs[j].title))]],
             LAMBDA cmp : StableSort(jobs, cmp)))

\* a.title.localeCompare throws a TypeError when a.title is not a string.
\* The comparator runs at all only on two or more elements, and which element
\* is passed as `a` is the engine's choice.
sortByTitleThrows(jobs) ==
    IF Len(jobs) < 2 \/ \A i \in 1..Len(jobs) : IsString(jobs[i].title) THEN {FALSE}
    ELSE IF \A i \in 1..Len(jobs) : ~IsString(jobs[i].title) THEN {TRUE}
    ELSE {TRUE, FALSE}

\* .sort((a, b) => (b.fitScore || 0) - (a.fitScore || 0))
sortByFitScore(list) ==
    With(list, LAMBDA jobs :
        With([i \in 1..Len(jobs) |-> [j \in 1..Len(jobs) |->
                jobs[j].fitScore - jobs[i].fitScore]],
             LAMBDA cmp : StableSort(jobs, cmp)))

\* scrapeRemoteOk / scrapeWwr after the body arrived: the matching records as
\* jobs.  RemoteOK's first record is its legal notice (data.slice(1)), and a
\* missing company reads "Unknown".  fitScore 0 stands for no fitScore.
Unknown == <<"U", "n", "k", "n", "o", "w", "n">>

scrapeJobs(i, data) ==
    LET records == IF i = 0 /\ data # <<>> THEN Tail(data) ELSE data
    IN  With(SelectSeq(records, LAMBDA rec : rec.ml), LAMBDA matching :
            [k \in 1..Len(matching) |->
                [title |-> matching[k].title,
                 company |-> IF i = 0 /\ matching[k].company = <<>> THEN Unknown
                             ELSE matching[k].company,
                 url |-> matching[k].url,
                 fitScore |-> 0]])

scanning(i) ==
    IF i = 0 THEN <<"Scanning RemoteOK API...">>
    ELSE <<"Scanning WeWorkRemotely jobs feed...">>

----------------------------------------------------------------------------
(* src/server.js: the task of one run.  startRun() runs synchronously up   *)
(* to its first await and is resumed when the awaited promise settles; a    *)
(* task record says which await it is suspended at (pc), with the locals    *)
(* that live across it.  Each operator below is the code between two        *)
(* awaits and yields the heap and the task it leaves behind.                *)

newTask(llmToken) ==
    [pc |-> "start", i |-> 0, g |-> 0, allJobs |-> <<>>, llmToken |-> llmToken]

\* completeRun without line 262: the progress stays where the last stage left it
completeRunStale(h, r, t) ==
    [h |-> pushUpdate([h EXCEPT !.runs[r].stage = <<"Completed">>,
                                !.runs[r].status = "completed"], r),
     task |-> [t EXCEPT !.pc = "done"]]

\* startRun, lines 261-264
completeRun(h, r, t) ==
    [h |-> pushUpdate([h EXCEPT !.runs[r].stage = <<"Completed">>,
                                !.runs[r].progress = 100,
                                !.runs[r].status = "completed"], r),
     task |-> [t EXCEPT !.pc = "done"]]

\* failRun on the wrong object: the first run of the registry is marked failed
failRunFirst(h, r, t, message) ==
    [h |-> pushUpdate(addLog([h EXCEPT !.runs[1].status = "failed",
                                       !.runs[1].stage = <<"Failed">>], 1, message), 1),
     task |-> [t EXCEPT !.pc = "done"]]

\* failRun without line 266: the run is never marked failed
failRunUnmarked(h, r, t, message) ==
    [h |-> pushUpdate(addLog([h EXCEPT !.runs[r].stage = <<"Failed">>], r, message), r),
     task |-> [t EXCEPT !.pc = "done"]]

\* startRun, lines 265-270
failRun(h, r, t, message) ==
    [h |-> pushUpdate(addLog([h EXCEPT !.runs[r].status = "failed",
                                       !.runs[r].stage = <<"Failed">>], r, message), r),
     task |-> [t EXCEPT !.pc = "done"]]

\* runStandardCrawl, lines 156-162, and scrapeX up to its fetch
crawlSource(h, r, t, i) ==
    LET h1 == [h EXCEPT !.runs[r].stage = <<"Crawling ", sources[i + 1]>>,
                        !.runs[r].progress = (i * 80) \div Len(sources)]
    IN  [h |-> addLog(pushUpdate(h1, r), r, scanning(i)),
         task |-> [t EXCEPT !.pc = "fetch", !.i = i]]

\* runLangGraphResearch, lines 194-202, then the fetch of line 207
synthesis(h, r, t) ==
    With(pushUpdate([h EXCEPT !.runs[r].stage = <<"Advanced pipeline: LLM synthesis">>,
                              !.runs[r].progress = 95], r),
         LAMBDA h1 :
            LET topJobs == Take(h1.runs[r].jobs, TopJobs)
            IN  IF Len(topJobs) = 0
                THEN completeRun(addLog(h1, r, <<"No jobs available for LLM synthesis.">>), r, t)
                ELSE [h |-> h1, task |-> [t EXCEPT !.pc = "llmFetch"]])

\* runStandardCrawl, lines 169-172, and the return to its caller.  The sort
\* may throw; the throw unwinds to the catch of startRun.
finishCrawl(heap, r, t) ==
    With(heap, LAMBDA h :
    With(dedupeJobs(t.allJobs), LAMBDA unique :
        LET h1 == [h EXCEPT !.runs[r].stage = <<"Deduplicating and ranking results">>,
                            !.runs[r].progress = 90]
            h2 == pushUpdate([h1 EXCEPT !.runs[r].jobs = sortByTitle(unique)], r)
        IN  { IF thrown
              THEN failRun(h1, r, t, <<"a.title.localeCompare is not a function">>)
              ELSE IF h.runs[r].mode = "advanced" THEN synthesis(h2, r, t)
              ELSE completeRun(h2, r, t)
            : thrown \in sortByTitleThrows(unique) }))

\* the loop of runStandardCrawl after source i was handled
nextSource(h, r, t, i) ==
    IF i + 1 < Len(sources) THEN {crawlSource(h, r, t, i + 1)} ELSE finishCrawl(h, r, t)

\* runStandardCrawl without the try/catch of lines 161-166: the error of a
\* source unwinds to the catch of startRun
sourceFailedFatal(h, r, t, message) == {failRun(h, r, t, message)}

\* runStandardCrawl, lines 164-166
sourceFailed(h, r, t, message) ==
    nextSource(addLog(h, r, <<sources[t.i + 1], " failed: ">> \o message), r, t, t.i)

\* runLangGraphResearch, lines 185-189
graphStage(h, r, t, g) ==
    [h |-> pushUpdate([h EXCEPT !.runs[r].stage = <<"Advanced pipeline: ", graphStages[g + 1]>>,
                                !.runs[r].progress = (g * 40) \div Len(graphStages)], r),
     task |-> [t EXCEPT !.pc = "timer", !.g = g]]

\* startRun, lines 249-259, up to the first await
startRun(h, r, t) ==
    LET mode == h.runs[r].mode
        h1 == addLog(h, r, <<"Starting ", mode, " crawl...">>)
    IN  IF mode = "advanced"
        THEN IF t.llmToken = ""
             THEN failRun(h1, r, t, <<"Advanced mode requires llmToken.">>)
             ELSE graphStage(addLog(h1, r,
                    <<"Advanced mode selected: initializing LangGraph-style research pipeline.">>),
                    r, t, 0)
        ELSE crawlSource(h1, r, t, 0)

\* runLangGraphResearch, lines 229-240: the last insight for a url wins
\* (new Map), Number(fitScore) || null.
applyInsights(list, insights) ==
    LET extra(url) == {k \in 1..Len(insights) : insights[k].url = url}
        last(S) == CHOOSE k \in S : \A j \in S : j <= k
    IN  With(list, LAMBDA jobs : sortByFitScore([k \in 1..Len(jobs) |->
            IF extra(jobs[k].url) = {} THEN jobs[k]
            ELSE [jobs[k] EXCEPT !.fitScore = insights[last(extra(jobs[k].url))].fitScore]]))

\* runLangGraphResearch, lines 243-245
synthesisSkipped(h, r, t, message) ==
    completeRun(addLog(h, r, <<"LLM synthesis skipped: ">> \o message), r, t)

Resume(r, outcomes) ==
    \E k \in outcomes :
        /\ runs' = k.h.runs
        /\ res' = k.h.res
        /\ emitted' = k.h.emitted
        /\ runTask' = [runTask EXCEPT ![r] = k.task]
        /\ UNCHANGED <<program, world, now, http, crawlRuns, partVars, fnVars>>

----------------------------------------------------------------------------
(* src/server.js: the handlers *)

\* POST /api/crawl/start: createRun, then startRun up to its first await.
\* http keeps the request and the response sent for it.
StartRun ==
    /\ program = "server.js"
    /\ Len(http) < MaxRuns
    /\ Len(http) + Len(res) < MaxLoad
    /\ \E mode \in Modes, llmToken \in Tokens :
        IF mode \notin {"standard", "advanced"}
        THEN /\ http' = Append(http, [mode |-> mode, llmToken |-> llmToken,
                                      status |-> 400, id |-> <<>>])
             /\ UNCHANGED <<program, world, now, serverVars, partVars, fnVars>>
        ELSE \E time \in {now, now + 1} \cap (0..MaxClock), random \in 0..MaxRand :
                LET id == <<time, random>>
                    r == Len(runs) + 1
                    h == [runs |-> Append(runs, newRun(id, mode)),
                          res |-> res,
                          emitted |-> Append(emitted, <<>>)]
                    k == startRun(h, r, newTask(llmToken))
                IN  /\ now' = time
                    /\ crawlRuns' = (id :> r) @@ crawlRuns
                    /\ runs' = k.h.runs
                    /\ res' = k.h.res
                    /\ emitted' = k.h.emitted
                    /\ runTask' = Append(runTask, k.task)
                    /\ http' = Append(http, [mode |-> mode, llmToken |-> llmToken,
                                             status |-> 202, id |-> id])
                    /\ UNCHANGED <<program, world, partVars, fnVars>>

\* runLangGraphResearch: the setTimeout of line 189 fires
TimerFires(r) ==
    /\ program = "server.js"
    /\ runTask[r].pc = "timer"
    /\ Resume(r, IF runTask[r].g + 1 < Len(graphStages)
                 THEN {graphStage(Heap, r, runTask[r], runTask[r].g + 1)}
                 ELSE {crawlSource(Heap, r, runTask[r], 0)})

\* scrapeRemoteOk / scrapeWwr: the awaits of one source settle (fetch, then
\* the body: lines 88-108, 113-145).  The task writes nothing between the two,
\* so they are one step.
SourceSettles(r) ==
    /\ program = "server.js"
    /\ runTask[r].pc = "fetch"
    /\ \E t \in {runTask[r]} :
       \E answer \in {world.src[t.i + 1]} :
       \E jobs \in {scrapeJobs(t.i, answer.data)} :
           Resume(r,
             IF answer.kind = "reject" THEN sourceFailed(Heap, r, t, FetchFailed)
             ELSE IF answer.kind = "status"
             THEN sourceFailed(Heap, r, t, <<sources[t.i + 1], " returned ", "503">>)
             ELSE IF answer.kind = "body" THEN sourceFailed(Heap, r, t, BodyFailed)
             ELSE nextSource(
                    addLog(Heap, r, <<sources[t.i + 1], ": found ", ToString(Len(jobs)),
                                      " matching ML roles.">>),
                    r, [t EXCEPT !.allJobs = @ \o jobs], t.i))

\* runLangGraphResearch: the awaits of the chat completion settle (fetch, then
\* the body: lines 207-245); again nothing is written between the two.
LlmSettles(r) ==
    /\ program = "server.js"
    /\ runTask[r].pc = "llmFetch"
    /\ LET t == runTask[r]
           scored == [Heap EXCEPT !.runs[r].jobs = applyInsights(@, world.llm.insights)]
       IN  Resume(r,
             IF world.llm.kind = "reject" THEN {synthesisSkipped(Heap, r, t, FetchFailed)}
             ELSE IF world.llm.kind = "status"
             THEN {synthesisSkipped(Heap, r, t, <<"LLM API error ", "401">>)}
             ELSE IF world.llm.kind = "body" THEN {synthesisSkipped(Heap, r, t, BodyFailed)}
             ELSE {completeRun(addLog(scored, r,
                     <<"LLM synthesis complete: jobs scored with fitScore and rationale.">>),
                     r, t)})

\* GET /api/crawl/events/:runId
Attach(id) ==
    /\ program = "server.js"
    /\ Len(res) < MaxClients
    /\ Len(http) + Len(res) < MaxLoad
    /\ IF id \notin DOMAIN crawlRuns
       THEN UNCHANGED vars                                      \* 404
       ELSE LET r == crawlRuns[id]
                c == Len(res) + 1
                h == [runs |-> [runs EXCEPT ![r].clients = @ \cup {c}],
                      res |-> Append(res, [run |-> r, wire |-> <<>>, open |-> TRUE]),
                      emitted |-> emitted]
                h1 == pushUpdate(h, r)
            IN  /\ runs' = h1.runs
                /\ res' = h1.res
                /\ emitted' = h1.emitted
                /\ UNCHANGED <<program, world, now, http, crawlRuns, runTask, partVars, fnVars>>

\* the close handler with run.clients.clear() for run.clients.delete(res)
DetachClears(c) ==
    /\ program = "server.js"
    /\ res[c].open
    /\ res' = [res EXCEPT ![c] = [run |-> @.run, wire |-> <<>>, open |-> FALSE]]
    /\ runs' = [runs EXCEPT ![res[c].run].clients = {}]
    /\ UNCHANGED <<program, world, now, http, crawlRuns, runTask, emitted, partVars, fnVars>>

\* req.on("close") of an attached client
Detach(c) ==
    /\ program = "server.js"
    /\ res[c].open
    /\ res' = [res EXCEPT ![c] = [run |-> @.run, wire |-> <<>>, open |-> FALSE]]
    /\ runs' = [runs EXCEPT ![res[c].run].clients = @ \ {c}]
    /\ UNCHANGED <<program, world, now, http, crawlRuns, runTask, emitted, partVars, fnVars>>

\* GET /api/crawl/:runId: answers with the run's fields (or 404), changes nothing
Snapshot(id) ==
    /\ program = "server.js"
    /\ UNCHANGED vars

ServerNext ==
    \/ StartRun
    \/ \E r \in 1..Len(runs) : TimerFires(r)
    \/ \E r \in 1..Len(runs) : SourceSettles(r)
    \/ \E r \in 1..Len(runs) : LlmSettles(r)
    \/ \E id \in Ids : Attach(id)
    \/ \E c \in 1..Len(res) : Detach(c)
    \/ \E id \in Ids : Snapshot(id)

----------------------------------------------------------------------------
(* src/unnamed/part_000: the session object and its event log              *)

crawlers == <<"Remotive", "Arbeitnow">>

newSession(id, advancedMode) ==
    [id |-> id, advancedMode |-> advancedMode, status |-> "running", progress |-> 0,
     stage |-> <<"Queued">>, events |-> <<>>, jobs |-> <<>>, error |-> <<>>,
     finishedAt |-> "null"]

pushEvent(session, event) == [session EXCEPT !.events = Append(@, event)]

progressEvent(session) ==
    [type |-> "progress", progress |-> session.progress, stage |-> session.stage]

logEvent(message) == [type |-> "log", message |-> message]

UnknownRole == <<"U", "n", "k", "n", "o", "w", "n", " ", "r", "o", "l", "e">>
UnknownCompany == <<"U", "n", "k", "n", "o", "w", "n", " ", "c", "o", "m", "p", "a", "n", "y">>

\* `ml` is what isMLJob answers on the job.
normalizeJob(job, source) ==
    [id |-> <<source, "-", job.id>>,
     source |-> source,
     title |-> IF job.title = <<>> THEN UnknownRole ELSE job.title,
     company |-> IF job.company = <<>> THEN UnknownCompany ELSE job.company,
     url |-> job.url,
     ml |-> job.ml]

isMLJob(job) == job.ml

\* runCrawl, line 199
dedupKey(job) == toLowerCase(job.title) \o <<"-">> \o toLowerCase(job.company)

\* job.title.toLowerCase() / job.company.toLowerCase() on a value that is not
\* a string throws a TypeError.
dedupThrows(mlJobs) ==
    \E k \in 1..Len(mlJobs) : ~IsString(mlJobs[k].title) \/ ~IsString(mlJobs[k].company)

\* runCrawl, lines 197-205: the reduce keeps the first job of each key, and
\* Object.values lists the keys in the order they were added
RECURSIVE dedupReduce(_, _, _)
\* the reduce without the test of line 200, on an array: every job is kept
dedupReduceKeepsAll(mlJobs, k, keys) ==
    IF k > Len(mlJobs) THEN <<>> ELSE <<mlJobs[k]>> \o dedupReduce(mlJobs, k + 1, keys)

dedupReduce(mlJobs, k, keys) ==
    IF k > Len(mlJobs) THEN <<>>
    ELSE With(dedupKey(mlJobs[k]), LAMBDA key :
            IF key \in keys THEN dedupReduce(mlJobs, k + 1, keys)
            ELSE <<mlJobs[k]>> \o With(keys \cup {key}, LAMBDA added :
                                          dedupReduce(mlJobs, k + 1, added)))

deduped(mlJobs) == With(mlJobs, LAMBDA list : dedupReduce(list, 1, {}))

\* jobs.find((job) => job.id === id): the first job with that id, if any
find(jobs, id) ==
    LET hits == {k \in 1..Len(jobs) : jobs[k].id = id}
    IN  IF hits = {} THEN <<>> ELSE <<jobs[Min(hits)]>>

RECURSIVE mapFind(_, _)
mapFind(jobs, rankedIds) ==
    IF rankedIds = <<>> THEN <<>>
    ELSE find(jobs, Head(rankedIds)) \o mapFind(jobs, Tail(rankedIds))

\* the merge without the filter of line 148: the named jobs are listed again
\* among the rest
mergeRankedKeepsNamed(jobs, rankedIds) ==
    Take(mapFind(jobs, rankedIds) \o jobs, RankedMax)

\* runAdvancedDeepResearch, lines 144-150
mergeRanked(jobs, rankedIds) ==
    With(mapFind(jobs, rankedIds), LAMBDA ranked :
        LET remainder == SelectSeq(jobs, LAMBDA job :
                            ~\E k \in 1..Len(ranked) : ranked[k].id = job.id)
        IN  Take(ranked \o remainder, RankedMax))

\* runAdvancedDeepResearch, lines 113-116 and 153-158
heuristic(jobs) == Take(jobs, RankedMax)

graphNotes ==
    << "LangGraph node executed: build_search_hypothesis", " | ",
       "LangGraph node executed: cluster_roles", " | ",
       "LangGraph node executed: rank_relevance", " | ",
       "LangGraph node executed: summarize_market", " | " >>

\* runCrawl, lines 213-230, with the result of runAdvancedDeepResearch
finishSession(session, t, finalJobs) ==
    With([session EXCEPT !.jobs = Take(finalJobs, SessionJobsMax),
                         !.stage = <<"Completed">>,
                         !.progress = 100,
                         !.status = "completed",
                         !.finishedAt = "set"],
         LAMBDA s1 :
            [session |-> pushEvent(s1, [type |-> "done", progress |-> 100, stage |-> s1.stage,
                                        totalJobs |-> Len(s1.jobs)]),
             task |-> [t EXCEPT !.pc = "done"]])

researched(session, t, finalJobs, note) ==
    finishSession(pushEvent(session, logEvent(graphNotes \o note)), t, finalJobs)

\* the catch of runCrawl with the progress taken back to 0
failSessionRollsBack(session, t, message) ==
    [session |-> pushEvent([session EXCEPT !.status = "failed",
                                           !.error = message,
                                           !.stage = <<"Failed">>,
                                           !.progress = 0],
                           [type |-> "error", message |-> message]),
     task |-> [t EXCEPT !.pc = "done"]]

\* runCrawl, lines 231-236
failSession(session, t, message) ==
    [session |-> pushEvent([session EXCEPT !.status = "failed",
                                           !.error = message,
                                           !.stage = <<"Failed">>],
                           [type |-> "error", message |-> message]),
     task |-> [t EXCEPT !.pc = "done"]]

\* runCrawl, lines 171-177, up to the fetch of the crawler
crawlNext(session, t, i) ==
    With([session EXCEPT !.stage = <<"Crawling ", crawlers[i + 1]>>,
                         !.progress = ((2 * i * 60 + Len(crawlers)) \div (2 * Len(crawlers))) + 10],
         LAMBDA s1 :
            [session |-> pushEvent(s1, progressEvent(s1)),
             task |-> [t EXCEPT !.pc = "fetch", !.i = i]])

\* runCrawl, lines 191-212, up to the fetch of runAdvancedDeepResearch (or to
\* the end, when there is none)
filterAndRank(session, t) ==
    With([session EXCEPT !.stage = <<"Filtering ML jobs">>, !.progress = 75], LAMBDA s0 :
    With(pushEvent(s0, progressEvent(s0)), LAMBDA s1 :
    With(SelectSeq(t.allJobs, isMLJob), LAMBDA mlJobs :
        LET s2 == [s1 EXCEPT !.stage = <<"Advanced mode: LangGraph deep research">>,
                             !.progress = 88]
            s3 == pushEvent(s2, progressEvent(s2))
        IN  IF dedupThrows(mlJobs)
            THEN failSession(s1, t, <<"job.title.toLowerCase is not a function">>)
            ELSE IF ~s1.advancedMode THEN finishSession(s1, t, deduped(mlJobs))
            ELSE IF t.llmToken = ""
            THEN researched(s3, t, heuristic(deduped(mlJobs)),
                     <<"No LLM API token provided. Returned heuristic ranking only.">>)
            ELSE [session |-> s3,
                  task |-> [t EXCEPT !.pc = "llmFetch", !.jobs = deduped(mlJobs)]])))

afterCrawler(session, t, i) ==
    IF i + 1 < Len(crawlers) THEN crawlNext(session, t, i + 1) ELSE filterAndRank(session, t)

\* runCrawl, lines 183-188
crawlerFailed(session, t, message) ==
    afterCrawler(pushEvent(session, logEvent(<<crawlers[t.i + 1], " crawl failed: ">> \o message)),
                 t, t.i)

ResumeCrawl(r, outcome) ==
    \E k \in {outcome} :
    /\ sessions' = [sessions EXCEPT ![r] = k.session]
    /\ crawlTask' = [crawlTask EXCEPT ![r] = k.task]
    /\ UNCHANGED <<program, world, now, http, crawlSessions, streams, serverVars, fnVars>>

----------------------------------------------------------------------------
(* src/unnamed/part_000: the handlers *)

\* POST /api/crawl/start: createSession, the first event, then runCrawl up to
\* its first await
StartCrawl ==
    /\ program = "part_000"
    /\ Len(http) < MaxRuns
    /\ Len(http) + Len(streams) < MaxLoad
    /\ \E advancedMode \in BOOLEAN, llmToken \in Tokens :
       \E time \in {now, now + 1} \cap (0..MaxClock), random \in 0..MaxRand :
          LET id == <<time, random>>
              r == Len(sessions) + 1
              s0 == newSession(id, advancedMode)
              s1 == pushEvent(s0, [type |-> "progress", progress |-> 5,
                                   stage |-> IF advancedMode THEN <<"Starting advanced crawl">>
                                             ELSE <<"Starting crawl">>])
              k == crawlNext(s1, [pc |-> "start", i |-> 0, allJobs |-> <<>>,
                                  llmToken |-> llmToken, jobs |-> <<>>], 0)
          IN  /\ now' = time
              /\ crawlSessions' = (id :> r) @@ crawlSessions
              /\ sessions' = Append(sessions, k.session)
              /\ crawlTask' = Append(crawlTask, k.task)
              /\ http' = Append(http, [mode |-> IF advancedMode THEN "advanced" ELSE "standard",
                                       llmToken |-> llmToken, status |-> 202, id |-> id])
              /\ UNCHANGED <<program, world, streams, serverVars, fnVars>>

\* crawlRemotive / crawlArbeitnow: the awaits of one crawler settle (fetch,
\* then the body: lines 68-73, 77-92); nothing is written between the two
CrawlerSettles(r) ==
    /\ program = "part_000"
    /\ crawlTask[r].pc = "fetch"
    /\ \E t \in {crawlTask[r]} :
       \E name \in {crawlers[t.i + 1]}, answer \in {world.src[t.i + 1]} :
       \E sourceJobs \in {[k \in 1..Len(answer.data) |-> normalizeJob(answer.data[k], name)]} :
           ResumeCrawl(r,
             IF answer.kind = "reject" THEN crawlerFailed(sessions[r], t, FetchFailed)
             ELSE IF answer.kind = "status"
             THEN crawlerFailed(sessions[r], t, <<name, " request failed with ", "503">>)
             ELSE IF answer.kind = "body" THEN crawlerFailed(sessions[r], t, BodyFailed)
             ELSE afterCrawler(
                    pushEvent(sessions[r], logEvent(<<"Collected ", ToString(Len(sourceJobs)),
                                                      " jobs from ", name>>)),
                    [t EXCEPT !.allJobs = @ \o sourceJobs], t.i))

\* runAdvancedDeepResearch: the awaits of the chat completion settle (lines
\* 124-158), and runCrawl runs to its end
RankingSettles(r) ==
    /\ program = "part_000"
    /\ crawlTask[r].pc = "llmFetch"
    /\ LET t == crawlTask[r]
           failed(message) == researched(sessions[r], t, heuristic(t.jobs),
                                         <<"LLM ranking failed: ">> \o message)
       IN  ResumeCrawl(r,
             IF world.llm.kind = "reject" THEN failed(FetchFailed)
             ELSE IF world.llm.kind = "status"
             THEN failed(<<"LLM API call failed with ", "401">>)
             ELSE IF world.llm.kind = "body" THEN failed(BodyFailed)
             ELSE researched(sessions[r], t, mergeRanked(t.jobs, world.llm.rankedIds),
                             <<"LLM ranking completed.">>))

\* pushPendingEvents writing only the newest pending event
pushPendingEventsNewest(stream, session) ==
    LET written == [stream EXCEPT
                      !.wire = IF stream.eventIndex < Len(session.events)
                               THEN Append(@, session.events[Len(session.events)])
                               ELSE @,
                      !.eventIndex = Len(session.events)]
    IN  IF session.status \in {"completed", "failed"}
        THEN [written EXCEPT !.timer = FALSE, !.ended = TRUE]
        ELSE written

\* pushPendingEvents, lines 271-282
pushPendingEvents(stream, session) ==
    LET written == [stream EXCEPT
                      !.wire = @ \o SubSeq(session.events, stream.eventIndex + 1,
                                           Len(session.events)),
                      !.eventIndex = Len(session.events)]
    IN  IF session.status \in {"completed", "failed"}
        THEN [written EXCEPT !.timer = FALSE, !.ended = TRUE]
        ELSE written

\* GET /api/crawl/stream/:id
OpenStream(id) ==
    /\ program = "part_000"
    /\ Len(streams) < MaxClients
    /\ Len(http) + Len(streams) < MaxLoad
    /\ IF id \notin DOMAIN crawlSessions
       THEN UNCHANGED vars                                      \* 404
       ELSE /\ streams' = Append(streams,
                    pushPendingEvents([session |-> crawlSessions[id], eventIndex |-> 0,
                                       wire |-> <<>>, timer |-> TRUE, ended |-> FALSE],
                                      sessions[crawlSessions[id]]))
            /\ UNCHANGED <<program, world, now, http, sessions, crawlSessions, crawlTask,
                           serverVars, fnVars>>

\* the setInterval of line 284 fires
Poll(c) ==
    /\ program = "part_000"
    /\ streams[c].timer
    /\ streams' = [streams EXCEPT ![c] = pushPendingEvents(@, sessions[@.session])]
    /\ UNCHANGED <<program, world, now, http, sessions, crawlSessions, crawlTask,
                   serverVars, fnVars>>

\* req.on("close") while the stream is open: the client went away
CloseStream(c) ==
    /\ program = "part_000"
    /\ streams[c].timer
    /\ streams' = [streams EXCEPT ![c] = [@ EXCEPT !.timer = FALSE, !.wire = <<>>,
                                                     !.eventIndex = 0]]
    /\ UNCHANGED <<program, world, now, http, sessions, crawlSessions, crawlTask,
                   serverVars, fnVars>>

\* GET /api/crawl/:id: answers with the session (or 404), changes nothing
GetSession(id) ==
    /\ program = "part_000"
    /\ UNCHANGED vars

PartNext ==
    \/ StartCrawl
    \/ \E r \in 1..Len(sessions) : CrawlerSettles(r)
    \/ \E r \in 1..Len(sessions) : RankingSettles(r)
    \/ \E id \in Ids : OpenStream(id)
    \/ \E c \in 1..Len(streams) : Poll(c)
    \/ \E c \in 1..Len(streams) : CloseStream(c)
    \/ \E id \in Ids : GetSession(id)

----------------------------------------------------------------------------

Init ==
    /\ program \in {"server.js", "part_000"}
    /\ world \in Worlds
    /\ now = 0
    /\ http = <<>>
    /\ runs = <<>>
    /\ crawlRuns = <<>>
    /\ runTask = <<>>
    /\ res = <<>>
    /\ emitted = <<>>
    /\ sessions = <<>>
    /\ crawlSessions = <<>>
    /\ crawlTask = <<>>
    /\ streams = <<>>
    /\ fnArgs = <<>>
    /\ fnResult = <<>>

Next == ServerNext \/ PartNext

Spec == Init /\ [][Next]_vars

\* A suspended task is resumed once the promise it awaits settles, and every
\* external call settles; an armed interval timer keeps firing.  Requests and
\* disconnections are the clients' to make: no fairness on them.
TaskStep(r) ==
    \/ r \in 1..Len(runs) /\ (TimerFires(r) \/ SourceSettles(r) \/ LlmSettles(r))
    \/ r \in 1..Len(sessions) /\ (CrawlerSettles(r) \/ RankingSettles(r))

TimerStep(c) == c \in 1..Len(streams) /\ Poll(c)

FairSpec ==
    /\ Init
    /\ [][Next]_vars
    /\ \A r \in 1..MaxRuns : WF_vars(TaskStep(r))
    /\ \A c \in 1..MaxClients : WF_vars(TimerStep(c))

----------------------------------------------------------------------------
(* Properties *)

Last(s) == s[Len(s)]

Terminal == {"completed", "failed"}

\* the events of part_000 that carry a progress value
Progressing(events) == SelectSeq(events, LAMBDA ev : ev.type \in {"progress", "done"})

NonDecreasing(s) == \A i, j \in 1..Len(s) : i < j => s[i].progress <= s[j].progress

\* C1: over the updates a run emits (the payloads of pushUpdate in server.js,
\* the progress and done events of a session in part_000), from its creation
\* on, progress never decreases.
C1_ProgressNeverDecreases ==
    /\ \A r \in 1..Len(runs) : NonDecreasing(emitted[r])
    /\ \A r \in 1..Len(sessions) : NonDecreasing(Progressing(sessions[r].events))

\* C2: a completed run has progress 100, and the last update it emitted
\* carries progress 100.
C2_CompletedAt100 ==
    /\ \A r \in 1..Len(runs) :
          runs[r].status = "completed" =>
             /\ runs[r].progress = 100
             /\ emitted[r] # <<>>
             /\ Last(emitted[r]).progress = 100
             /\ Last(emitted[r]).status = "completed"
    /\ \A r \in 1..Len(sessions) :
          sessions[r].status = "completed" =>
             /\ sessions[r].progress = 100
             /\ sessions[r].events # <<>>
             /\ Last(sessions[r].events).type = "done"
             /\ Last(sessions[r].events).progress = 100

\* a run of server.js completed after passing through the LLM synthesis stage
C2_Witness ==
    \E r \in 1..Len(runs) :
        /\ runs[r].status = "completed"
        /\ runs[r].mode = "advanced"
        /\ \E k \in 1..Len(emitted[r]) : emitted[r][k].progress = 95

\* C3: a run starts as running, and a run that is completed or failed keeps
\* that status in every later step (of any task, attach, detach, poll or
\* snapshot request).
C3_TerminalIsFinal ==
    [][ /\ \A r \in 1..Len(runs) :
              runs[r].status \in Terminal => runs'[r].status = runs[r].status
        /\ \A r \in 1..Len(sessions) :
              sessions[r].status \in Terminal => sessions'[r].status = sessions[r].status
        /\ Len(runs') > Len(runs) => emitted'[Len(runs')][1].status = "running"
        /\ Len(sessions') > Len(sessions) => sessions'[Len(sessions')].status = "running"
      ]_vars

\* a client attached to a run that had already failed while another run was
\* still at work
C3_Witness ==
    \E c \in 1..Len(res) :
        /\ res[c].open
        /\ Len(res[c].wire) = 1
        /\ res[c].wire[1].status = "failed"
        /\ \E r \in 1..Len(runs) : runs[r].status = "running"

\* C5: a start request for advanced mode with an empty credential is answered
\* without a run identifier and adds no run to the registry.
C5_NoTokenRejected ==
    [][ ( /\ Len(http') = Len(http) + 1
          /\ Last(http').mode = "advanced"
          /\ Last(http').llmToken = "" )
        => ( /\ Last(http').id = <<>>
             /\ crawlRuns' = crawlRuns
             /\ crawlSessions' = crawlSessions ) ]_vars

----------------------------------------------------------------------------
(* C4: isolation of a failing source *)

\* the reason a failed source's entry carries: the message of the error thrown
\* by fetch(), by the `!res.ok` check, or by res.json()
failureReason(name, returned, kind) ==
    CASE kind = "reject" -> FetchFailed
      [] kind = "status" -> <<name, returned, "503">>
      [] OTHER -> BodyFailed

\* the run of server.js asked both sources and its task has run to its end
Crawled(r) ==
    /\ runTask[r].pc = "done"
    /\ \A i \in 0..(Len(sources) - 1) : scanning(i) \in Range(runs[r].logs)

SomeSourceFailed == \E i \in 1..Len(world.src) : world.src[i].kind # "ok"

\* every record the sources return has a string for title and for company
WellFormed ==
    \A i \in 1..Len(world.src) : \A k \in 1..Len(world.src[i].data) :
        IsString(world.src[i].data[k].title) /\ IsString(world.src[i].data[k].company)

SourceFailuresIsolated ==
    /\ \A r \in 1..Len(runs) :
          (Crawled(r) /\ SomeSourceFailed) =>
             /\ runs[r].status = "completed"
             /\ \A i \in 1..Len(sources) :
                   IF world.src[i].kind # "ok"
                   THEN (<<sources[i], " failed: ">>
                            \o failureReason(sources[i], " returned ", world.src[i].kind))
                        \in Range(runs[r].logs)
                   ELSE \A job \in Range(scrapeJobs(i - 1, world.src[i].data)) :
                           \E kept \in Range(runs[r].jobs) : dedupeKey(kept) = dedupeKey(job)
    /\ \A r \in 1..Len(sessions) :
          (crawlTask[r].pc = "done" /\ SomeSourceFailed) =>
             /\ sessions[r].status = "completed"
             /\ \A i \in 1..Len(crawlers) :
                   IF world.src[i].kind # "ok"
                   THEN logEvent(<<crawlers[i], " crawl failed: ">>
                            \o failureReason(crawlers[i], " request failed with ",
                                             world.src[i].kind))
                        \in Range(sessions[r].events)
                   ELSE \A k \in 1..Len(world.src[i].data) :
                           isMLJob(world.src[i].data[k]) =>
                              \E kept \in Range(sessions[r].jobs) :
                                 dedupKey(kept) = dedupKey(normalizeJob(world.src[i].data[k],
                                                                        crawlers[i]))

----------------------------------------------------------------------------
(* C6, C8, C9 *)

\* the message of the error the ranking call ended with
rankingFailure(failed) ==
    CASE world.llm.kind = "reject" -> FetchFailed
      [] world.llm.kind = "status" -> <<failed, "401">>
      [] OTHER -> BodyFailed

\* the run of server.js made the chat-completion call (it had a job to send)
\* and its task has run to its end
SynthesisCalled(r) ==
    /\ runTask[r].pc = "done"
    /\ runs[r].mode = "advanced"
    /\ runTask[r].llmToken # ""
    /\ \E k \in 1..Len(emitted[r]) : emitted[r][k].progress = 95 /\ emitted[r][k].jobs # <<>>

\* the same for a session of part_000, whose stage of progress 88 precedes
\* the ranking
RankingCalled(r) ==
    /\ crawlTask[r].pc = "done"
    /\ sessions[r].advancedMode
    /\ crawlTask[r].llmToken # ""
    /\ \E k \in 1..Len(sessions[r].events) :
          sessions[r].events[k].type = "progress" /\ sessions[r].events[k].progress = 88

\* C6: when the ranking call of an advanced run with a credential fails, the
\* run ends completed, its jobs are the first RankedMax jobs of the
\* deduplicated list in that list's order, and the log ends with (the event
\* log holds) a note that tells of the failure.
C6_RankingFailureFallsBack ==
    world.llm.kind # "ok" =>
        /\ \A r \in 1..Len(runs) :
              SynthesisCalled(r) =>
                 /\ runs[r].status = "completed"
                 /\ runs[r].jobs = Take(dedupeJobs(runTask[r].allJobs), RankedMax)
                 /\ Last(runs[r].logs)
                       = <<"LLM synthesis skipped: ">> \o rankingFailure("LLM API error ")
        /\ \A r \in 1..Len(sessions) :
              RankingCalled(r) =>
                 /\ sessions[r].status = "completed"
                 /\ sessions[r].jobs
                       = Take(deduped(SelectSeq(crawlTask[r].allJobs, isMLJob)), RankedMax)
                 /\ logEvent(graphNotes \o <<"LLM ranking failed: ">>
                                \o rankingFailure("LLM API call failed with "))
                       \in Range(sessions[r].events)

\* C8: the first message a newly attached observer receives carries the
\* progress and the stage the run has at that moment.
C8_AttachSendsCurrentSnapshot ==
    [][ /\ Len(res') > Len(res) =>
              /\ Last(res').wire # <<>>
              /\ Last(res').wire[1].progress = runs'[Last(res').run].progress
              /\ Last(res').wire[1].stage = runs'[Last(res').run].stage
        /\ Len(streams') > Len(streams) =>
              /\ Last(streams').wire # <<>>
              /\ Last(streams').wire[1].progress = sessions'[Last(streams').session].progress
              /\ Last(streams').wire[1].stage = sessions'[Last(streams').session].stage
      ]_vars

\* C9: a stream the server ended has the terminal event as its last message;
\* and once a run has ended and its terminal event is on an observer's
\* stream, the server has ended that stream: no stream that the client did
\* not close itself stays open on an ended run with nothing left to deliver.
C9_StreamEndsAfterTerminalEvent ==
    /\ \A c \in 1..Len(res) :
          res[c].open => runs[res[c].run].status \notin Terminal
    /\ \A c \in 1..Len(streams) :
          /\ streams[c].ended =>
                /\ streams[c].wire # <<>>
                /\ Last(streams[c].wire).type \in {"done", "error"}
          /\ ( /\ streams[c].timer
               /\ streams[c].eventIndex = Len(sessions[streams[c].session].events) )
             => sessions[streams[c].session].status \notin Terminal

\* a field up to letter case
LowerField(v) == IF IsString(v) THEN toLowerCase(v) ELSE v

----------------------------------------------------------------------------
(* C12, C13 *)

\* the jobs the task of run r (server.js) or of session r (part_000) has
\* collected held two with the same title and company up to letter case
CollectedTwice(collected) ==
    \E i, j \in 1..Len(collected) :
        /\ i < j
        /\ LowerField(collected[i].title) = LowerField(collected[j].title)
        /\ LowerField(collected[i].company) = LowerField(collected[j].company)

\* C12 as claimed: the jobs of a completed run hold no two jobs with the same
\* title and company up to letter case.
C12_OnePerTitleAndCompany ==
    /\ \A r \in 1..Len(runs) :
          runs[r].status = "completed" =>
             \A i, j \in 1..Len(runs[r].jobs) :
                ( /\ LowerField(runs[r].jobs[i].title) = LowerField(runs[r].jobs[j].title)
                  /\ LowerField(runs[r].jobs[i].company) = LowerField(runs[r].jobs[j].company) )
                => i = j
    /\ \A r \in 1..Len(sessions) :
          sessions[r].status = "completed" =>
             \A i, j \in 1..Len(sessions[r].jobs) :
                ( /\ LowerField(sessions[r].jobs[i].title) = LowerField(sessions[r].jobs[j].title)
                  /\ LowerField(sessions[r].jobs[i].company)
                        = LowerField(sessions[r].jobs[j].company) )
                => i = j

\* C12: the jobs of a completed run hold no two jobs with the same fields of
\* the program's dedup key up to letter case: title and company in part_000;
\* title, company and url in server.js.
C12_OnePerDedupKey ==
    /\ \A r \in 1..Len(runs) :
          runs[r].status = "completed" =>
             \A i, j \in 1..Len(runs[r].jobs) :
                ( /\ LowerField(runs[r].jobs[i].title) = LowerField(runs[r].jobs[j].title)
                  /\ LowerField(runs[r].jobs[i].company) = LowerField(runs[r].jobs[j].company)
                  /\ LowerField(runs[r].jobs[i].url) = LowerField(runs[r].jobs[j].url) )
                => i = j
    /\ \A r \in 1..Len(sessions) :
          sessions[r].status = "completed" =>
             \A i, j \in 1..Len(sessions[r].jobs) :
                ( /\ LowerField(sessions[r].jobs[i].title) = LowerField(sessions[r].jobs[j].title)
                  /\ LowerField(sessions[r].jobs[i].company)
                        = LowerField(sessions[r].jobs[j].company) )
                => i = j

\* a run of server.js completed after its two sources each returned the same
\* posting up to letter case, and a session of part_000 after one source
\* returned one posting at two urls
C12_Witness ==
    \/ \E r \in 1..Len(runs) :
          /\ runs[r].status = "completed"
          /\ world.src[2].kind = "ok"
          /\ CollectedTwice(runTask[r].allJobs)
    \/ \E r \in 1..Len(sessions) :
          /\ sessions[r].status = "completed"
          /\ world.src[2].kind = "status"
          /\ CollectedTwice(SelectSeq(crawlTask[r].allJobs, isMLJob))

\* C13: the runs created so far carry pairwise different identifiers, and the
\* registry leads from each run's identifier to that run.
C13_IdentifiersUnique ==
    /\ \A r1, r2 \in 1..Len(runs) : r1 # r2 => runs[r1].id # runs[r2].id
    /\ \A r \in 1..Len(runs) : runs[r].id \in DOMAIN crawlRuns /\ crawlRuns[runs[r].id] = r
    /\ \A r1, r2 \in 1..Len(sessions) : r1 # r2 => sessions[r1].id # sessions[r2].id
    /\ \A r \in 1..Len(sessions) :
          sessions[r].id \in DOMAIN crawlSessions /\ crawlSessions[sessions[r].id] = r

----------------------------------------------------------------------------
(* C14: the frame of a detach *)

\* C14: a step in which an observer's connection closes leaves every run's
\* status, progress, stage, logs or events and jobs as they were, leaves the
\* messages delivered to every other observer as they were, and leaves every
\* other observer attached.
C14_DetachFrame ==
    [][ /\ \A c \in 1..Len(res) :
              (res[c].open /\ ~res'[c].open) =>
                 /\ \A r \in 1..Len(runs) :
                       /\ payload(runs'[r]) = payload(runs[r])
                       /\ runs'[r].clients = runs[r].clients \ {c}
                 /\ emitted' = emitted
                 /\ runTask' = runTask
                 /\ \A d \in 1..Len(res) : d # c => res'[d] = res[d]
        /\ \A c \in 1..Len(streams) :
              (streams[c].timer /\ ~streams'[c].timer /\ ~streams'[c].ended) =>
                 /\ sessions' = sessions
                 /\ crawlTask' = crawlTask
                 /\ \A d \in 1..Len(streams) : d # c => streams'[d] = streams[d]
      ]_vars

\* one observer of a run has left, the other one is still attached and has
\* received the update that ended the run
C14_Witness ==
    \E c, d \in 1..Len(res) :
        /\ ~res[c].open
        /\ res[d].open
        /\ res[c].run = res[d].run
        /\ res[d].wire # <<>>
        /\ Last(res[d].wire).status = "completed"

----------------------------------------------------------------------------
(* C15 *)

\* C15: between the steps of the run task, the progress and stage fields of
\* every run equal the progress and stage of the latest update sent for it
\* (server.js), and those of every session equal the progress and stage of
\* its latest progress or done event (part_000).
C15_FieldsMatchLatestEvent ==
    /\ \A r \in 1..Len(runs) :
          /\ emitted[r] # <<>>
          /\ Last(emitted[r]).progress = runs[r].progress
          /\ Last(emitted[r]).stage = runs[r].stage
    /\ \A r \in 1..Len(sessions) :
          \E p \in {Progressing(sessions[r].events)} :
              /\ p # <<>>
              /\ Last(p).progress = sessions[r].progress
              /\ Last(p).stage = sessions[r].stage

----------------------------------------------------------------------------
(* C16 *)

\* the messages of the errors that reach the catch of startRun
StartRunErrors ==
    {<<"a.title.localeCompare is not a function">>, <<"Advanced mode requires llmToken.">>}

\* run r of server.js fails in this step
RunFails(r) ==
    /\ runs'[r].status = "failed"
    /\ r \in 1..Len(runs) => runs[r].status # "failed"

\* session r of part_000 fails in this step
SessionFails(r) ==
    /\ sessions'[r].status = "failed"
    /\ r \in 1..Len(sessions) => sessions[r].status # "failed"

\* C16: the step that moves a run to failed does not take its progress back,
\* and ends with the error message as the last entry of the run's logs
\* (server.js) or as the last event of the session, which is an error event
\* (part_000); from then on neither the progress nor the logs or events of the
\* run change.
C16_FailureKeepsProgressAndEndsLog ==
    [][ /\ \A r \in 1..Len(runs') :
              /\ RunFails(r) =>
                    /\ runs'[r].progress >= (IF r \in 1..Len(runs) THEN runs[r].progress ELSE 0)
                    /\ runs'[r].logs # <<>>
                    /\ Last(runs'[r].logs) \in StartRunErrors
                    /\ Last(emitted'[r]).logs = runs'[r].logs
                    /\ Last(emitted'[r]).progress = runs'[r].progress
              /\ (r \in 1..Len(runs) /\ runs[r].status = "failed") =>
                    /\ runs'[r].logs = runs[r].logs
                    /\ runs'[r].progress = runs[r].progress
        /\ \A r \in 1..Len(sessions') :
              /\ SessionFails(r) =>
                    /\ sessions'[r].progress >=
                          (IF r \in 1..Len(sessions) THEN sessions[r].progress ELSE 0)
                    /\ Last(sessions'[r].events) =
                          [type |-> "error", message |-> sessions'[r].error]
              /\ (r \in 1..Len(sessions) /\ sessions[r].status = "failed") =>
                    /\ sessions'[r].events = sessions[r].events
                    /\ sessions'[r].progress = sessions[r].progress
      ]_vars

\* a session failed after its progress had reached the filtering stage, and a
\* client has read its events to the end
C16_Witness ==
    \E c \in 1..Len(streams) :
        /\ streams[c].ended
        /\ sessions[streams[c].session].status = "failed"
        /\ sessions[streams[c].session].progress = 75
        /\ Last(streams[c].wire).type = "error"

----------------------------------------------------------------------------
(* C17 *)

\* what a stream of part_000 has written is the first eventIndex events of its
\* session, in their order; a stream the server ended has written all of them
StreamsDeliverPrefix ==
    \A c \in 1..Len(streams) :
        (streams[c].timer \/ streams[c].ended) =>
            /\ streams[c].wire = Take(sessions[streams[c].session].events,
                                      streams[c].eventIndex)
            /\ streams[c].ended =>
                  streams[c].wire = sessions[streams[c].session].events

\* in one step a connected client of server.js receives exactly the updates
\* sent for its run in that step, in the order they were sent
ClientsReceiveEachUpdate ==
    \A c \in 1..Len(res') :
        res'[c].open =>
            \E r \in {res'[c].run} :
                res'[c].wire =
                    (IF c \in 1..Len(res) THEN res[c].wire ELSE <<>>)
                    \o SubSeq(emitted'[r],
                              IF c \in 1..Len(res) THEN Len(emitted[r]) + 1
                              ELSE Len(emitted'[r]),
                              Len(emitted'[r]))

\* C17: every observer receives the messages of its run in the order they
\* were emitted, each one as often as it was emitted and none skipped: a
\* connected client of server.js gets every update sent for its run from its
\* attach on, and a stream of part_000 gets the session's events from the
\* first on, all of them by the time the server ends it.
C17_DeliveredInOrderExactlyOnce ==
    []StreamsDeliverPrefix /\ [][ClientsReceiveEachUpdate]_vars

\* one stream was ended by the server after the whole event sequence, while
\* another stream of the same session has read a part of it and is still open
C17_Witness ==
    \E c, d \in 1..Len(streams) :
        /\ streams[c].session = streams[d].session
        /\ streams[c].ended
        /\ Len(streams[c].wire) >= 4
        /\ streams[d].timer
        /\ 0 < streams[d].eventIndex
        /\ streams[d].eventIndex < Len(sessions[streams[d].session].events)

----------------------------------------------------------------------------
(* C18 *)

\* C18: a step that attaches a new observer delivers nothing to the
\* observers there were before it: what each of them has received is
\* unchanged.
C18_AttachReachesOnlyNewObserver ==
    [][ /\ Len(res') > Len(res) =>
              \A c \in 1..Len(res) : res'[c].wire = res[c].wire
        /\ Len(streams') > Len(streams) =>
              \A c \in 1..Len(streams) : streams'[c].wire = streams[c].wire
      ]_vars

\* every run there is has ended
AllEnded ==
    /\ \A r \in 1..Len(runs) : runs[r].status \in Terminal
    /\ \A r \in 1..Len(sessions) : sessions[r].status \in Terminal

\* C10: every run that was started reaches completed or failed, with or
\* without a client attached to it: from some point on, every run there is
\* has ended.  (A terminal status stays, and a behaviour starts finitely many
\* runs, so this is "each started run eventually ends".)
C10_EveryRunEnds == <>[]AllEnded

\* a session that ended although no stream was ever opened
C10_Witness ==
    /\ streams = <<>>
    /\ \E r \in 1..Len(sessions) :
          sessions[r].status = "completed" /\ sessions[r].advancedMode

----------------------------------------------------------------------------
(* runAdvancedDeepResearch's merge (lines 144-150) as a function of the     *)
(* deduplicated job list and of the identifier list the model returned.     *)

MaxRankedIds == 2   \* identifiers in a returned list

\* a deduplicated list of n jobs, as normalizeJob leaves them
RankJobs(n) ==
    [k \in 1..n |-> normalizeJob(Raw(ToString(k), <<"a">>, <<"a">>, <<"a">>, TRUE), "Remotive")]

\* identifiers of the first two jobs, of the job after the cut, and of no job
RankIdPool ==
    { <<"Remotive", "-", "1">>, <<"Remotive", "-", "2">>,
      <<"Remotive", "-", ToString(RankedMax + 1)>>, <<"Remotive", "-", "x">> }

RankInputs ==
    [ jobs : { RankJobs(n) : n \in (0..2) \cup ((RankedMax - 1)..(RankedMax + 2)) },
      rankedIds : UNION { [1..n -> RankIdPool] : n \in 0..MaxRankedIds } ]

RankInit ==
    /\ fnArgs \in RankInputs
    /\ fnResult = <<>>
    /\ program = "part_000"
    /\ world = World(Ok(<<>>), Ok(<<>>), LlmAnswer("ok", <<>>, fnArgs.rankedIds))
    /\ now = 0
    /\ http = <<>>
    /\ runs = <<>> /\ crawlRuns = <<>> /\ runTask = <<>> /\ res = <<>> /\ emitted = <<>>
    /\ sessions = <<>> /\ crawlSessions = <<>> /\ crawlTask = <<>> /\ streams = <<>>

ApplyMergeRanked ==
    /\ fnResult = <<>>
    /\ fnResult' = <<mergeRanked(fnArgs.jobs, world.llm.rankedIds)>>
    /\ UNCHANGED <<program, world, now, http, serverVars, partVars, fnArgs>>

RankNext == ApplyMergeRanked

SpecRank == RankInit /\ [][RankNext]_vars

\* C7: the merge yields the jobs the identifier list names, in the order of
\* the list (an identifier that names no job is skipped), then the jobs the
\* list does not name, in their original order, cut to the first RankedMax.
C7_MergePolicy ==
    fnResult # <<>> =>
        LET jobs == fnArgs.jobs
            known == SelectSeq(fnArgs.rankedIds,
                               LAMBDA id : \E k \in 1..Len(jobs) : jobs[k].id = id)
            named == [n \in 1..Len(known) |-> CHOOSE job \in Range(jobs) : job.id = known[n]]
            others == SelectSeq(jobs, LAMBDA job : job.id \notin Range(fnArgs.rankedIds))
        IN  fnResult[1] = Take(named \o others, RankedMax)

\* the list names the job after the cut and an unknown identifier: the named
\* job comes first and the result is cut to RankedMax
C7_Witness ==
    /\ fnResult # <<>>
    /\ Len(fnArgs.jobs) = RankedMax + 2
    /\ fnArgs.rankedIds = << <<"Remotive", "-", "x">>, <<"Remotive", "-", ToString(RankedMax + 1)>> >>
    /\ Len(fnResult[1]) = RankedMax
    /\ fnResult[1][1] = fnArgs.jobs[RankedMax + 1]
    /\ fnResult[1][2] = fnArgs.jobs[1]

\* C19: the merge's output lists only jobs of its input, and each of them at
\* most once, whatever identifiers (repeated, unknown) the list holds.
C19_RankedOnceEach ==
    fnResult # <<>> =>
        /\ Range(fnResult[1]) \subseteq Range(fnArgs.jobs)
        /\ \A i, j \in 1..Len(fnResult[1]) :
              i # j => fnResult[1][i].id # fnResult[1][j].id

----------------------------------------------------------------------------
(* The two deduplications as functions of a job list: dedupeJobs of         *)
(* src/server.js (lines 74-84) and the reduce of runCrawl in                *)
(* src/unnamed/part_000 (lines 197-205), applied once and then again to     *)
(* their own output.                                                        *)

MaxDedupeLen == 3   \* jobs in a list given to the deduplication

\* postings that differ in letter case only (D1, D2), in the url only (D1,
\* D3), that carry the separator of a key inside a field (D4 and D5 for "|",
\* D6 and D7 for "-"), and one whose title is not a string (D8)
D1 == Raw("1", <<"a">>, <<"a">>, <<"a">>, TRUE)
D2 == Raw("2", <<"A">>, <<"a">>, <<"a">>, TRUE)
D3 == Raw("3", <<"a">>, <<"a">>, <<"b">>, TRUE)
D4 == Raw("4", <<"a", "|", "b">>, <<"a">>, <<"a">>, TRUE)
D5 == Raw("5", <<"a">>, <<"b", "|", "a">>, <<"a">>, TRUE)
D6 == Raw("6", <<"a", "-", "b">>, <<"a">>, <<"a">>, TRUE)
D7 == Raw("7", <<"a">>, <<"b", "-", "a">>, <<"a">>, TRUE)
D8 == Raw("8", NUM7, <<"a">>, <<"a">>, TRUE)

DedupePool == {D1, D2, D3, D4, D5, D6, D7, D8}

\* the job server.js makes of a record (scrapeRemoteOk, lines 97-105)
scraped(rec) ==
    [title |-> rec.title, company |-> rec.company, url |-> rec.url, fitScore |-> 0]

DedupeInputs ==
    [ fn : {"dedupeJobs", "deduped"},
      jobs : UNION { [1..n -> DedupePool] : n \in 0..MaxDedupeLen } ]

DedupeInit ==
    /\ fnArgs \in DedupeInputs
    /\ fnResult = <<>>
    /\ program = IF fnArgs.fn = "dedupeJobs" THEN "server.js" ELSE "part_000"
    /\ world = World(Ok(fnArgs.jobs), Ok(<<>>), LlmReject)
    /\ now = 0
    /\ http = <<>>
    /\ runs = <<>> /\ crawlRuns = <<>> /\ runTask = <<>> /\ res = <<>> /\ emitted = <<>>
    /\ sessions = <<>> /\ crawlSessions = <<>> /\ crawlTask = <<>> /\ streams = <<>>

\* the list the next application is given: the input, then the last output
DedupeArgument ==
    IF fnResult = <<>>
    THEN IF fnArgs.fn = "dedupeJobs"
         THEN [k \in 1..Len(fnArgs.jobs) |-> scraped(fnArgs.jobs[k])]
         ELSE [k \in 1..Len(fnArgs.jobs) |-> normalizeJob(fnArgs.jobs[k], "Remotive")]
    ELSE fnResult[Len(fnResult)].jobs

ApplyDedupeJobs ==
    /\ fnArgs.fn = "dedupeJobs"
    /\ Len(fnResult) < 2
    /\ fnResult' = Append(fnResult, [thrown |-> FALSE, jobs |-> dedupeJobs(DedupeArgument)])
    /\ UNCHANGED <<program, world, now, http, serverVars, partVars, fnArgs>>

ApplyDeduped ==
    /\ fnArgs.fn = "deduped"
    /\ Len(fnResult) < 2
    /\ IF fnResult = <<>> THEN TRUE ELSE ~fnResult[1].thrown
    /\ fnResult' = Append(fnResult,
                      IF dedupThrows(DedupeArgument)
                      THEN [thrown |-> TRUE, jobs |-> <<>>]
                      ELSE [thrown |-> FALSE, jobs |-> deduped(DedupeArgument)])
    /\ UNCHANGED <<program, world, now, http, serverVars, partVars, fnArgs>>

DedupeNext == ApplyDedupeJobs \/ ApplyDeduped

SpecDedupe == DedupeInit /\ [][DedupeNext]_vars

\* the elements of s at the indices of I, in order
SubSeqAt(s, I) ==
    [n \in 1..Cardinality(I) |-> s[CHOOSE k \in I : Cardinality({j \in I : j <= k}) = n]]

\* the list the first application was given
DedupeInput ==
    IF fnArgs.fn = "dedupeJobs"
    THEN [k \in 1..Len(fnArgs.jobs) |-> scraped(fnArgs.jobs[k])]
    ELSE [k \in 1..Len(fnArgs.jobs) |-> normalizeJob(fnArgs.jobs[k], "Remotive")]

\* the dedup key of the function applied
KeyOf(job) == IF fnArgs.fn = "dedupeJobs" THEN dedupeKey(job) ELSE dedupKey(job)

\* C11: whenever the deduplication returns, its output is the input's jobs
\* that are the first of their dedup key, in the input's order, and
\* deduplicating that output again returns it unchanged.
C11_DedupeStableIdempotent ==
    /\ (Len(fnResult) >= 1 /\ ~fnResult[1].thrown) =>
          fnResult[1].jobs =
             SubSeqAt(DedupeInput,
                      {k \in 1..Len(DedupeInput) :
                          \A j \in 1..(k - 1) : KeyOf(DedupeInput[j]) # KeyOf(DedupeInput[k])})
    /\ Len(fnResult) = 2 => (~fnResult[2].thrown /\ fnResult[2].jobs = fnResult[1].jobs)

\* a list of three with a repeat in the middle was deduplicated twice
C11_Witness ==
    /\ Len(fnResult) = 2
    /\ Len(fnArgs.jobs) = 3
    /\ fnArgs.jobs[1] = D3 /\ fnArgs.jobs[2] = D2 /\ fnArgs.jobs[3] = D1
    /\ Len(fnResult[1].jobs) = 2

\* the fields of the dedup key are the same up to letter case
SameKeyFields(a, b) ==
    /\ LowerField(a.title) = LowerField(b.title)
    /\ LowerField(a.company) = LowerField(b.company)
    /\ fnArgs.fn = "dedupeJobs" => LowerField(a.url) = LowerField(b.url)

\* C20: a job that no earlier job of the list equals in the fields of the
\* dedup key (up to letter case) is kept by the deduplication.
C20_OnlyEqualFieldsCollapse ==
    (Len(fnResult) >= 1 /\ ~fnResult[1].thrown) =>
        \A k \in 1..Len(DedupeInput) :
            (\A j \in 1..(k - 1) : ~SameKeyFields(DedupeInput[j], DedupeInput[k]))
               => DedupeInput[k] \in Range(fnResult[1].jobs)

====
